---- MODULE Spec2Model ----
(***************************************************************************)
(* A model of the type-level operators of mapped-types.ts and              *)
(* utility-types.ts and of the runtime guards of aliases-and-guards.       *)
(*                                                                         *)
(* A type is the set of the members of a union (never is the empty set).   *)
(* A member is a record                                                    *)
(*   [tag, name, ro, elem, items, props]                                   *)
(* tag "prim": the primitive or literal type `name`;                       *)
(* tag "fn":   the function type with signature `name`;                    *)
(* tag "arr":  Array<elem>, or with ro the interface extending             *)
(*             ReadonlyArray<elem>;                                        *)
(* tag "tuple": the tuple type with element types `items`;                 *)
(* tag "obj":  the object type with properties `props`, a set of           *)
(*             [key, type, opt, ro]; an optional property admits           *)
(*             undefined, so its type always holds the member undefined.   *)
(* A conditional type over a naked type parameter distributes over the     *)
(* members of a union; the operators below say so with a union over the    *)
(* members.                                                                *)
(***************************************************************************)
EXTENDS Integers, Sequences, FiniteSets, TLC

VARIABLES T, U, K, value, op, result, again

vars == <<T, U, K, value, op, result, again>>

-----------------------------------------------------------------------------
(* Bounds of the checked instances *)

\* number of distinct property names a record shape is drawn from
MaxKeys == 4
\* number of distinct property names the members of a union are drawn from
MaxUnionKeys == 3
\* nesting depth of the shapes the deep transforms are applied to
MaxDepth == 3
\* length of the arrays handed to the guards
MaxLen == 2
\* number of distinct literal members the unions of the set operators are drawn from
MaxLiterals == 4
\* number of distinct property names of the shapes whose keys are partitioned
MaxPropKeys == 3

-----------------------------------------------------------------------------
(* Type terms *)

Prim(n) == [tag |-> "prim", name |-> n, ro |-> FALSE, elem |-> {}, items |-> <<>>, props |-> {}]
Fn(sig) == [tag |-> "fn", name |-> sig, ro |-> FALSE, elem |-> {}, items |-> <<>>, props |-> {}]
ArrayOf(e) == [tag |-> "arr", name |-> "", ro |-> FALSE, elem |-> e, items |-> <<>>, props |-> {}]
ReadonlyArrayOf(e) == [tag |-> "arr", name |-> "", ro |-> TRUE, elem |-> e, items |-> <<>>, props |-> {}]
TupleOf(its) == [tag |-> "tuple", name |-> "", ro |-> FALSE, elem |-> {}, items |-> its, props |-> {}]
Obj(ps) == [tag |-> "obj", name |-> "", ro |-> FALSE, elem |-> {}, items |-> <<>>, props |-> ps]

Undefined == Prim("undefined")
Null == Prim("null")

\* a property declaration `key: type`, `key?: type`, `readonly key: type`
Prop(k, t, o, r) == [key |-> k, type |-> IF o THEN t \cup {Undefined} ELSE t, opt |-> o, ro |-> r]

\* the union of the item types of a tuple: T[number]
RECURSIVE ItemUnion(_)
ItemUnion(its) == IF its = <<>> THEN {} ELSE Head(its) \cup ItemUnion(Tail(its))

\* T[number] of an array or tuple member
ElementType(m) == IF m.tag = "tuple" THEN ItemUnion(m.items) ELSE m.elem

\* the members an array type declares, as properties: the numeric index
\* signature, length, and a method standing for the methods of the interface
ArrayMembers(m) ==
  { [key |-> "[number]", type |-> ElementType(m), opt |-> FALSE, ro |-> m.ro],
    [key |-> "length", type |-> {Prim("number")}, opt |-> FALSE, ro |-> m.ro],
    [key |-> "forEach", type |-> {Fn("forEach")}, opt |-> FALSE, ro |-> FALSE] }

\* the properties of an object-like member
PropsOf(m) ==
  CASE m.tag = "obj" -> m.props
    [] m.tag \in {"arr", "tuple"} -> ArrayMembers(m)
    [] OTHER -> {}

KeysOfMember(m) == { p.key : p \in PropsOf(m) }

\* keyof T: a key of a union is a key of every member
KeyOf(t) ==
  IF t = {} THEN {}
  ELSE { k \in UNION { KeysOfMember(m) : m \in t } : \A m \in t : k \in KeysOfMember(m) }

PropAt(m, k) == CHOOSE p \in PropsOf(m) : p.key = k

\* T[k]: the union of the members' property types
Lookup(t, k) == UNION { PropAt(m, k).type : m \in t }

\* Pick<T, K> = { [P in K]: T[P] }: one object type; the modifiers are those
\* of the property of T, which is optional or read-only when it is so in
\* some member of the union
Pick(t, ks) ==
  { Obj({ [key |-> k,
           type |-> Lookup(t, k),
           opt |-> \E m \in t : PropAt(m, k).opt,
           ro |-> \E m \in t : PropAt(m, k).ro] : k \in ks }) }

\* A & B of two object members: the properties of both; a property of both
\* has the intersection of the two types, and is optional or read-only when
\* it is so in both
MergeMembers(a, b) ==
  Obj({ [key |-> k,
         type |-> IF k \in KeysOfMember(a) /\ k \in KeysOfMember(b)
                  THEN PropAt(a, k).type \cap PropAt(b, k).type
                  ELSE IF k \in KeysOfMember(a) THEN PropAt(a, k).type
                  ELSE PropAt(b, k).type,
         opt |-> IF k \in KeysOfMember(a) /\ k \in KeysOfMember(b)
                 THEN PropAt(a, k).opt /\ PropAt(b, k).opt
                 ELSE IF k \in KeysOfMember(a) THEN PropAt(a, k).opt
                 ELSE PropAt(b, k).opt,
         ro |-> IF k \in KeysOfMember(a) /\ k \in KeysOfMember(b)
                THEN PropAt(a, k).ro /\ PropAt(b, k).ro
                ELSE IF k \in KeysOfMember(a) THEN PropAt(a, k).ro
                ELSE PropAt(b, k).ro] : k \in KeysOfMember(a) \cup KeysOfMember(b) })

\* A & B distributes over the unions: two object members merge, a literal
\* or primitive member meets only itself (two distinct ones give never)
IntersectionType(a, b) ==
  UNION { IF x.tag = "obj" /\ y.tag = "obj" THEN { MergeMembers(x, y) }
          ELSE IF x = y THEN { x }
          ELSE {}
          : x \in a, y \in b }

-----------------------------------------------------------------------------
(* mapped-types.ts: set operators *)

\* A extends B ? A : never, for unions of literal members
SetIntersection(a, b) == { x \in a : x \in b }

\* A extends B ? never : A
SetDifference(a, b) == { x \in a : x \notin b }

\* SetDifference<A, A1>, A1 a subset of A
SetComplement(a, a1) == SetDifference(a, a1)

\* A | B
UnionType(a, b) == a \cup b

\* SymmetricDifference with the union forgotten: the members of A alone
SymmetricDifferenceOfAOnly(a, b) == SetDifference(a, IntersectionType(a, b))

\* SetDifference<A | B, A & B>
SymmetricDifference(a, b) == SetDifference(UnionType(a, b), IntersectionType(a, b))

-----------------------------------------------------------------------------
(* mapped-types.ts: object operators *)

\* Omit without the distributing conditional: one Pick over the whole union
OmitWithoutDistribution(t, ks) == Pick(t, SetDifference(KeyOf(t), ks))

\* T extends any ? Pick<T, SetDifference<keyof T, K>> : never
Omit(t, ks) == UNION { Pick({m}, SetDifference(KeyOf({m}), ks)) : m \in t }

\* T extends any ? Pick<T, SetIntersection<keyof T, keyof U>> : never
Intersection(t, u) == UNION { Pick({m}, SetIntersection(KeyOf({m}), KeyOf(u))) : m \in t }

\* Diff with the set operator mistaken: keeps the shared keys
DiffKeepingShared(t, u) == Pick(t, SetIntersection(KeyOf(t), KeyOf(u)))

\* Pick<T, SetDifference<keyof T, keyof U>>
Diff(t, u) == Pick(t, SetDifference(KeyOf(t), KeyOf(u)))

\* Pick<T, SetComplement<keyof T, keyof T1>>
Subtract(t, t1) == Pick(t, SetComplement(KeyOf(t), KeyOf(t1)))

\* utility-types.ts $Diff: Pick<T, SetComplement<keyof T, keyof U>>
DollarDiff(t, u) == Pick(t, SetComplement(KeyOf(t), KeyOf(u)))

\* Overwrite's I with the arguments of Intersection swapped: T's version kept
OverwriteIKeepingT(t, u) == IntersectionType(Diff(t, u), Intersection(t, u))

\* I = Diff<T, U> & Intersection<U, T>; Pick<I, keyof I>
OverwriteI(t, u) == IntersectionType(Diff(t, u), Intersection(u, t))

Overwrite(t, u) == Pick(OverwriteI(t, u), KeyOf(OverwriteI(t, u)))

\* Assign's I without Diff<U, T>: the properties of U alone are not added
AssignIWithoutNew(t, u) == IntersectionType(Diff(t, u), Intersection(u, t))

\* I = Diff<T, U> & Intersection<U, T> & Diff<U, T>; Pick<I, keyof I>
AssignI(t, u) == IntersectionType(IntersectionType(Diff(t, u), Intersection(u, t)), Diff(u, t))

Assign(t, u) == Pick(AssignI(t, u), KeyOf(AssignI(t, u)))

-----------------------------------------------------------------------------
(* Record shapes the object operators are applied to *)

KeyNames == <<"age", "name", "other", "visible", "extra">>

Keys == { KeyNames[i] : i \in 1..MaxKeys }

ValueTypes == { {Prim("string")}, {Prim("number")} }

\* every record shape over a subset of ks with required, writable properties
ShapesOver(keys) ==
  UNION { { Obj({ Prop(k, f[k], FALSE, FALSE) : k \in ks }) : f \in [ks -> ValueTypes] }
          : ks \in SUBSET keys }

Shapes == ShapesOver(Keys)

UnionKeys == { KeyNames[i] : i \in 1..MaxUnionKeys }

UnionShapes == ShapesOver(UnionKeys)

\* the fixtures of the tests
Props == Obj({ Prop("name", {Prim("string")}, FALSE, FALSE),
               Prop("age", {Prim("number")}, FALSE, FALSE),
               Prop("visible", {Prim("boolean")}, FALSE, FALSE) })

NewProps == Obj({ Prop("age", {Prim("string")}, FALSE, FALSE),
                  Prop("other", {Prim("string")}, FALSE, FALSE) })

DefaultProps == Obj({ Prop("age", {Prim("number")}, FALSE, FALSE) })

Fixtures == { Props, NewProps, DefaultProps }

-----------------------------------------------------------------------------
(* Operators on two record shapes *)

InitShape ==
  /\ T \in { {s} : s \in Shapes \cup Fixtures }
  /\ U \in { {s} : s \in Shapes \cup Fixtures }
  /\ K = {}
  /\ value = FALSE
  /\ op = "none"
  /\ result = {}
  /\ again = {}

ApplyOverwrite ==
  /\ op = "none"
  /\ op' = "Overwrite"
  /\ result' = Overwrite(T, U)
  /\ UNCHANGED <<T, U, K, value, again>>

ApplyAssign ==
  /\ op = "none"
  /\ op' = "Assign"
  /\ result' = Assign(T, U)
  /\ UNCHANGED <<T, U, K, value, again>>

ApplyDiff ==
  /\ op = "none"
  /\ op' = "Diff"
  /\ result' = Diff(T, U)
  /\ UNCHANGED <<T, U, K, value, again>>

\* $Diff<T extends U, U>: T must be assignable to U
ApplyDollarDiff ==
  /\ op = "none"
  /\ \A m \in T : \A u \in U : \A k \in KeysOfMember(u) :
        k \in KeysOfMember(m) /\ PropAt(m, k).type \subseteq PropAt(u, k).type
  /\ op' = "$Diff"
  /\ result' = DollarDiff(T, U)
  /\ UNCHANGED <<T, U, K, value, again>>

NextShape == ApplyOverwrite \/ ApplyAssign \/ ApplyDiff \/ ApplyDollarDiff

SpecShape == InitShape /\ [][NextShape]_vars

-----------------------------------------------------------------------------
(* Operators on a union of record shapes *)

InitUnion ==
  /\ T \in { {a, b} : a \in UnionShapes \cup Fixtures, b \in UnionShapes \cup Fixtures }
  /\ U \in { {s} : s \in UnionShapes \cup Fixtures }
  /\ K = {}
  /\ value = FALSE
  /\ op = "none"
  /\ result = {}
  /\ again = {}

\* Omit<T, K extends keyof T>
ApplyOmit ==
  /\ op = "none"
  /\ \E ks \in SUBSET KeyOf(T) :
        /\ K' = ks
        /\ result' = Omit(T, ks)
  /\ op' = "Omit"
  /\ UNCHANGED <<T, U, value, again>>

ApplyIntersection ==
  /\ op = "none"
  /\ op' = "Intersection"
  /\ result' = Intersection(T, U)
  /\ UNCHANGED <<T, U, K, value, again>>

NextUnion == ApplyOmit \/ ApplyIntersection \/ ApplyDiff

SpecUnion == InitUnion /\ [][NextUnion]_vars

-----------------------------------------------------------------------------
(* mapped-types.ts: deep transforms *)

\* A extends undefined ? never : A
NonUndefined(a) == { m \in a : m # Undefined }

\* NonNullable<T>: T extends null | undefined ? never : T
NonNullable(a) == { m \in a : m \notin {Null, Undefined} }

\* T extends (...args: any[]) => any
ExtendsFunction(m) == m.tag = "fn"

\* T extends any[]: an array or a tuple; a read-only array has no push or
\* pop and is not assignable to any[]
ExtendsAnyArray(m) == (m.tag = "arr" /\ ~m.ro) \/ m.tag = "tuple"

\* T extends object
ExtendsObject(m) == m.tag \in {"obj", "arr", "tuple", "fn"}

RECURSIVE DeepReadonly(_), DeepRequired(_), DeepNonNullable(_)

\* interface _DeepReadonlyArray<T> extends ReadonlyArray<DeepReadonly<T>>
_DeepReadonlyArray(t) == ReadonlyArrayOf(DeepReadonly(t))

\* Readonly<T> in place of _DeepReadonlyObject<T>: the nested types are left
ShallowReadonlyObject(m) ==
  Obj({ [key |-> p.key, type |-> p.type, opt |-> p.opt, ro |-> TRUE] : p \in PropsOf(m) })

\* { readonly [P in keyof T]: DeepReadonly<T[P]> }
_DeepReadonlyObject(m) ==
  Obj({ [key |-> p.key, type |-> DeepReadonly(p.type), opt |-> p.opt, ro |-> TRUE]
        : p \in PropsOf(m) })

\* DeepReadonly without the test for functions: a function is mapped as an
\* object
DeepReadonlyMemberMappingFunctions(m) ==
  IF ExtendsAnyArray(m) THEN { _DeepReadonlyArray(ElementType(m)) }
  ELSE IF ExtendsObject(m) THEN { _DeepReadonlyObject(m) }
  ELSE { m }

\* one member of the union through the conditional type of DeepReadonly
DeepReadonlyMember(m) ==
  IF ExtendsFunction(m) THEN { m }
  ELSE IF ExtendsAnyArray(m) THEN { _DeepReadonlyArray(ElementType(m)) }
  ELSE IF ExtendsObject(m) THEN { _DeepReadonlyObject(m) }
  ELSE { m }

DeepReadonly(t) == UNION { DeepReadonlyMember(m) : m \in t }

\* utility-types.ts: $ReadOnly<T extends object> = DeepReadonly<T>
DollarReadOnly(t) == DeepReadonly(t)

\* _DeepRequiredArray without NonUndefined: the elements may stay undefined
DeepRequiredArrayKeepingUndefined(t) == ArrayOf(DeepRequired(t))

\* interface _DeepRequiredArray<T> extends Array<DeepRequired<NonUndefined<T>>>
_DeepRequiredArray(t) == ArrayOf(DeepRequired(NonUndefined(t)))

\* { [P in keyof T]-?: DeepRequired<NonUndefined<T[P]>> }
_DeepRequiredObject(m) ==
  Obj({ [key |-> p.key, type |-> DeepRequired(NonUndefined(p.type)), opt |-> FALSE, ro |-> p.ro]
        : p \in PropsOf(m) })

DeepRequiredMember(m) ==
  IF ExtendsFunction(m) THEN { m }
  ELSE IF ExtendsAnyArray(m) THEN { _DeepRequiredArray(ElementType(m)) }
  ELSE IF ExtendsObject(m) THEN { _DeepRequiredObject(m) }
  ELSE { m }

DeepRequired(t) == UNION { DeepRequiredMember(m) : m \in t }

\* interface _DeepNonNullableArray<T> extends Array<DeepNonNullable<NonNullable<T>>>
_DeepNonNullableArray(t) == ArrayOf(DeepNonNullable(NonNullable(t)))

\* _DeepNonNullableObject with NonUndefined for NonNullable: null stays
DeepNonNullableObjectKeepingNull(m) ==
  Obj({ [key |-> p.key, type |-> DeepNonNullable(NonUndefined(p.type)), opt |-> FALSE, ro |-> p.ro]
        : p \in PropsOf(m) })

\* { [P in keyof T]-?: DeepNonNullable<NonNullable<T[P]>> }
_DeepNonNullableObject(m) ==
  Obj({ [key |-> p.key, type |-> DeepNonNullable(NonNullable(p.type)), opt |-> FALSE, ro |-> p.ro]
        : p \in PropsOf(m) })

DeepNonNullableMember(m) ==
  IF ExtendsFunction(m) THEN { m }
  ELSE IF ExtendsAnyArray(m) THEN { _DeepNonNullableArray(ElementType(m)) }
  ELSE IF ExtendsObject(m) THEN { _DeepNonNullableObject(m) }
  ELSE { m }

DeepNonNullable(t) == UNION { DeepNonNullableMember(m) : m \in t }

-----------------------------------------------------------------------------
(* Shapes the deep transforms are applied to *)

\* the leaves of the fixtures: name: string and second: (value: number) => string
LeafTypes == { {Prim("string")}, {Fn("(value: number) => string")} }

\* a leaf, alone or with null or with undefined: string | null, string | undefined
LeafLevel == UNION { { t, t \cup {Null}, t \cup {Undefined} } : t \in LeafTypes }

\* the shapes one level above those of s: a record with a required or an
\* optional property (an optional one admits undefined), a record with a
\* second, function-typed property, and an array
Composites(s) ==
  { {Obj({ Prop("first", t, o, FALSE) })} : t \in s, o \in BOOLEAN }
  \cup { {Obj({ Prop("first", t, FALSE, FALSE),
                Prop("second", {Fn("(value: number) => string")}, TRUE, FALSE) })} : t \in s }
  \cup { {ArrayOf(t)} : t \in s }

\* the tuples of a leaf and a number: [string | null, number]
Tuples == { {TupleOf(<<t, {Prim("number")}>>)} : t \in LeafLevel }

\* a shape, alone or with null: null | {...}
Nullables(t) == { t, t \cup {Null} }

RECURSIVE TypesUpTo(_)
TypesUpTo(d) ==
  IF d = 0 THEN LeafLevel
  ELSE LET below == TypesUpTo(d - 1)
       IN below \cup UNION { Nullables(c) : c \in Composites(below) \cup Tuples }

InitDeep ==
  /\ T \in TypesUpTo(MaxDepth)
  /\ U = {}
  /\ K = {}
  /\ value = FALSE
  /\ op = "none"
  /\ result = {}
  /\ again = {}

ApplyDeepReadonly ==
  /\ op = "none"
  /\ op' = "DeepReadonly"
  /\ result' = DeepReadonly(T)
  /\ UNCHANGED <<T, U, K, value, again>>

\* $ReadOnly<T extends object>
ApplyDollarReadOnly ==
  /\ op = "none"
  /\ \A m \in T : ExtendsObject(m)
  /\ op' = "$ReadOnly"
  /\ result' = DollarReadOnly(T)
  /\ UNCHANGED <<T, U, K, value, again>>

ApplyDeepRequired ==
  /\ op = "none"
  /\ op' = "DeepRequired"
  /\ result' = DeepRequired(T)
  /\ UNCHANGED <<T, U, K, value, again>>

ApplyDeepNonNullable ==
  /\ op = "none"
  /\ op' = "DeepNonNullable"
  /\ result' = DeepNonNullable(T)
  /\ UNCHANGED <<T, U, K, value, again>>

\* the same transform applied to its own result
ReapplyDeepReadonly ==
  /\ op = "DeepReadonly"
  /\ op' = "DeepReadonly twice"
  /\ again' = DeepReadonly(result)
  /\ UNCHANGED <<T, U, K, value, result>>

ReapplyDeepRequired ==
  /\ op = "DeepRequired"
  /\ op' = "DeepRequired twice"
  /\ again' = DeepRequired(result)
  /\ UNCHANGED <<T, U, K, value, result>>

ReapplyDeepNonNullable ==
  /\ op = "DeepNonNullable"
  /\ op' = "DeepNonNullable twice"
  /\ again' = DeepNonNullable(result)
  /\ UNCHANGED <<T, U, K, value, result>>

NextDeep ==
  \/ ApplyDeepReadonly
  \/ ApplyDollarReadOnly
  \/ ApplyDeepRequired
  \/ ApplyDeepNonNullable
  \/ ReapplyDeepReadonly
  \/ ReapplyDeepRequired
  \/ ReapplyDeepNonNullable

SpecDeep == InitDeep /\ [][NextDeep]_vars

-----------------------------------------------------------------------------
(* Set operators on unions of literal members *)

LiteralNames == <<"1", "2", "3", "4", "5">>

\* the string literal types '1', '2', ...
Literals == { Prim(LiteralNames[i]) : i \in 1..MaxLiterals }

InitSet ==
  /\ T \in SUBSET Literals
  /\ U \in SUBSET Literals
  /\ K = {}
  /\ value = FALSE
  /\ op = "none"
  /\ result = {}
  /\ again = {}

ApplySetIntersection ==
  /\ op = "none"
  /\ op' = "SetIntersection"
  /\ result' = SetIntersection(T, U)
  /\ UNCHANGED <<T, U, K, value, again>>

ApplySetDifference ==
  /\ op = "none"
  /\ op' = "SetDifference"
  /\ result' = SetDifference(T, U)
  /\ UNCHANGED <<T, U, K, value, again>>

\* SetComplement<A, A1 extends A>
ApplySetComplement ==
  /\ op = "none"
  /\ U \subseteq T
  /\ op' = "SetComplement"
  /\ result' = SetComplement(T, U)
  /\ UNCHANGED <<T, U, K, value, again>>

\* SymmetricDifference<A, B>, and SymmetricDifference<B, A> beside it
ApplySymmetricDifference ==
  /\ op = "none"
  /\ op' = "SymmetricDifference"
  /\ result' = SymmetricDifference(T, U)
  /\ again' = SymmetricDifference(U, T)
  /\ UNCHANGED <<T, U, K, value>>

NextSet ==
  \/ ApplySetIntersection
  \/ ApplySetDifference
  \/ ApplySetComplement
  \/ ApplySymmetricDifference

SpecSet == InitSet /\ [][NextSet]_vars

\* C13: SymmetricDifference<A, B> of unions of literal members holds the
\* members of A or B that are not in both, which is SetDifference<A, B> |
\* SetDifference<B, A>, and SymmetricDifference<B, A> is the same union
SymmetricDifferenceIsEitherNotBoth ==
  op = "SymmetricDifference" =>
    /\ result = { x \in Literals : (x \in T) # (x \in U) }
    /\ result = SetDifference(T, U) \cup SetDifference(U, T)
    /\ again = result

SymmetricDifferenceWitness ==
  /\ op = "SymmetricDifference"
  /\ T = { Prim("1"), Prim("2"), Prim("3") }
  /\ U = { Prim("2"), Prim("3"), Prim("4") }
  /\ result = { Prim("1"), Prim("4") }

-----------------------------------------------------------------------------
(* mapped-types.ts: FunctionKeys and NonFunctionKeys *)

\* T[K] extends Function: T[K] is not a naked type parameter, so the
\* conditional does not distribute and the whole type must be callable
ExtendsFunctionType(ty) == \A m \in ty : m.tag = "fn"

\* { [K in keyof T]: T[K] extends Function ? K : never }: the mapped type
\* keeps the modifiers of T, so the type of an optional property admits
\* undefined
FunctionKeysMap(m) ==
  Obj({ Prop(p.key, IF ExtendsFunctionType(p.type) THEN {Prim(p.key)} ELSE {}, p.opt, p.ro)
        : p \in PropsOf(m) })

\* { ... }[keyof T]
FunctionKeys(t) ==
  LET mapped == { FunctionKeysMap(m) : m \in t }
  IN UNION { Lookup(mapped, k) : k \in KeyOf(t) }

\* { [K in keyof T]: T[K] extends Function ? never : K }
NonFunctionKeysMap(m) ==
  Obj({ Prop(p.key, IF ExtendsFunctionType(p.type) THEN {} ELSE {Prim(p.key)}, p.opt, p.ro)
        : p \in PropsOf(m) })

\* { ... }[keyof T]
NonFunctionKeys(t) ==
  LET mapped == { NonFunctionKeysMap(m) : m \in t }
  IN UNION { Lookup(mapped, k) : k \in KeyOf(t) }

PropKeyNames == <<"name", "setName", "age", "visible">>

PropKeys == { PropKeyNames[i] : i \in 1..MaxPropKeys }

\* name: string, setName: (name: string) => void, and a union of the two
MixedTypes == { {Prim("string")}, {Fn("(name: string) => void")},
                {Prim("string"), Fn("(name: string) => void")} }

\* every record shape over a subset of PropKeys, its properties required or
\* optional
MixedShapes ==
  UNION { { Obj({ Prop(k, f[k][1], f[k][2], FALSE) : k \in ks }) : f \in [ks -> MixedTypes \X BOOLEAN] }
          : ks \in SUBSET PropKeys }

\* type MixedProps = { name: string; setName: (name: string) => void }
MixedProps == Obj({ Prop("name", {Prim("string")}, FALSE, FALSE),
                    Prop("setName", {Fn("(name: string) => void")}, FALSE, FALSE) })

InitKeys ==
  /\ T \in { {m} : m \in MixedShapes }
  /\ U = {}
  /\ K = {}
  /\ value = FALSE
  /\ op = "none"
  /\ result = {}
  /\ again = {}

ApplyFunctionKeys ==
  /\ op = "none"
  /\ op' = "FunctionKeys"
  /\ result' = FunctionKeys(T)
  /\ UNCHANGED <<T, U, K, value, again>>

\* NonFunctionKeys<T> of the same T, kept beside FunctionKeys<T>
ApplyNonFunctionKeys ==
  /\ op = "FunctionKeys"
  /\ op' = "NonFunctionKeys"
  /\ again' = NonFunctionKeys(T)
  /\ UNCHANGED <<T, U, K, value, result>>

NextKeys == ApplyFunctionKeys \/ ApplyNonFunctionKeys

SpecKeys == InitKeys /\ [][NextKeys]_vars

\* keyof T as a union of literal types
KeyLiterals(t) == { Prim(k) : k \in KeyOf(t) }

\* C14: FunctionKeys<T> and NonFunctionKeys<T> are disjoint, their union is
\* keyof T, and a key is in FunctionKeys<T> exactly when its whole value type
\* is callable
FunctionKeysPartitionKeys ==
  op = "NonFunctionKeys" =>
    /\ result \cap again = {}
    /\ result \cup again = KeyLiterals(T)
    /\ \A k \in KeyOf(T) : Prim(k) \in result <=> (\A m \in Lookup(T, k) : m.tag = "fn")

\* what holds of C14: the keys are partitioned when no property of T is
\* optional; with an optional property both unions hold undefined, which is
\* no key of T
FunctionKeysPartitionRequiredKeys ==
  op = "NonFunctionKeys" =>
    /\ (\A m \in T : \A p \in m.props : ~p.opt) =>
          /\ result \cap again = {}
          /\ result \cup again = KeyLiterals(T)
    /\ (\E m \in T : \E p \in m.props : p.opt) =>
          /\ Undefined \in result \cap again
          /\ (result \cup again) \ {Undefined} = KeyLiterals(T)
    /\ \A k \in KeyOf(T) : Prim(k) \in result <=> (\A m \in Lookup(T, k) : m.tag = "fn")

\* what the code yields for C14 on { name: string; setName?: (name: string) => void }
FunctionKeysOfOptionalFunction ==
  (op = "NonFunctionKeys"
     /\ T = { Obj({ Prop("name", {Prim("string")}, FALSE, FALSE),
                    Prop("setName", {Fn("(name: string) => void")}, TRUE, FALSE) }) }) =>
    /\ result = { Undefined }
    /\ again = { Prim("name"), Prim("setName"), Undefined }

\* on the fixture MixedProps the two are "setName" and "name"
FunctionKeysOfMixedProps ==
  (op = "NonFunctionKeys" /\ T = {MixedProps}) =>
    /\ result = { Prim("setName") }
    /\ again = { Prim("name") }

-----------------------------------------------------------------------------
(* aliases-and-guards: runtime values and the guards *)

\* a runtime value: its kind (typeof, with null and arrays told apart), and
\* the boolean, string or number it is, or the items of the array
Val(k, b, str, n, its) == [kind |-> k, bool |-> b, str |-> str, num |-> n, items |-> its]

VBool(b) == Val("boolean", b, "", 0, <<>>)
VStr(str) == Val("string", FALSE, str, 0, <<>>)
VNum(n) == Val("number", FALSE, "", n, <<>>)
VNull == Val("null", FALSE, "", 0, <<>>)
VUndefined == Val("undefined", FALSE, "", 0, <<>>)
VSymbol == Val("symbol", FALSE, "", 0, <<>>)
VObject == Val("object", FALSE, "", 0, <<>>)
VFunction == Val("function", FALSE, "", 0, <<>>)
VArray(its) == Val("array", FALSE, "", 0, its)

\* typeof value
TypeOf(v) == IF v.kind \in {"null", "array"} THEN "object" ELSE v.kind

\* const falsyTestVals: unknown[] = [false, '', 0, null, undefined]
falsyTestVals == <<VBool(FALSE), VStr(""), VNum(0), VNull, VUndefined>>

\* const truthyTestVals: unknown[] = [' ', true, {}, []]
truthyTestVals == <<VStr(" "), VBool(TRUE), VObject, VArray(<<>>)>>

\* the values of type Primitive the guards are tried on
Primitives ==
  { VBool(FALSE), VBool(TRUE), VStr(""), VStr(" "), VNum(0), VNum(1), VNull, VUndefined, VSymbol }

RECURSIVE SeqsUpTo(_, _)
SeqsUpTo(s, n) ==
  IF n = 0 THEN { <<>> }
  ELSE SeqsUpTo(s, n - 1) \cup { Append(q, x) : q \in SeqsUpTo(s, n - 1), x \in s }

\* the values of type Primitive[]
PrimitiveArrays == { VArray(q) : q \in SeqsUpTo(Primitives, MaxLen) }

Values == Primitives \cup PrimitiveArrays \cup { VObject, VFunction }

\* Falsy: false, the empty string, zero, null, undefined
Falsy == { VBool(FALSE), VStr(""), VNum(0), VNull, VUndefined }

\* isFalsy that takes every string for falsy
isFalsyAnyString(v) == v \in Falsy \/ v.kind = "string"

\* isFalsy(value): value is one of the Falsy values
isFalsy(v) == v \in Falsy

\* isPrimitive that goes by typeof alone: null is an "object"
isPrimitiveByTypeOf(v) == TypeOf(v) \in {"boolean", "number", "string", "symbol", "undefined"}

\* isPrimitive(value): the value is null or undefined, or its typeof is that
\* of a primitive
isPrimitive(v) ==
  \/ v.kind \in {"null", "undefined"}
  \/ TypeOf(v) \in {"boolean", "number", "string", "symbol"}

InitGuard ==
  /\ value \in Values
  /\ T = {}
  /\ U = {}
  /\ K = {}
  /\ op = "none"
  /\ result = FALSE
  /\ again = ""

CallIsFalsy ==
  /\ op = "none"
  /\ op' = "isFalsy"
  /\ result' = isFalsy(value)
  /\ UNCHANGED <<T, U, K, value, again>>

CallIsPrimitive ==
  /\ op = "none"
  /\ op' = "isPrimitive"
  /\ result' = isPrimitive(value)
  /\ UNCHANGED <<T, U, K, value, again>>

\* consumer(param: Primitive[] | Primitive): the branch taken and the type
\* param is narrowed to in it
ConsumerIsPrimitive ==
  /\ op = "none"
  /\ value \in Primitives \cup PrimitiveArrays
  /\ op' = "consumer"
  /\ result' = isPrimitive(value)
  /\ again' = IF isPrimitive(value) THEN "Primitive" ELSE "Primitive[]"
  /\ UNCHANGED <<T, U, K, value>>

NextGuard == CallIsFalsy \/ CallIsPrimitive \/ ConsumerIsPrimitive

SpecGuard == InitGuard /\ [][NextGuard]_vars

(* Properties of the guards *)

InSeq(v, q) == \E i \in 1..Len(q) : q[i] = v

\* C6: isFalsy(value) is true exactly when value is false, the empty
\* string, zero, null or undefined, and false for every other value, among
\* them ' ', true, an object and an empty array; it always yields a boolean
IsFalsyExactlyTheFalsyValues ==
  op = "isFalsy" =>
    /\ result \in BOOLEAN
    /\ result = ( \/ (value.kind = "boolean" /\ value.bool = FALSE)
                  \/ (value.kind = "string" /\ value.str = "")
                  \/ (value.kind = "number" /\ value.num = 0)
                  \/ value.kind = "null"
                  \/ value.kind = "undefined" )
    /\ InSeq(value, falsyTestVals) => result = TRUE
    /\ InSeq(value, truthyTestVals) => result = FALSE

IsFalsyWitness ==
  /\ op = "isFalsy"
  /\ value = VStr(" ")
  /\ result = FALSE

\* C7: isPrimitive(value) is true exactly when value is a boolean, number,
\* string, null, undefined or symbol; so of a Primitive | Primitive[] the
\* true branch holds the primitives and the false branch the arrays
IsPrimitiveExactlyThePrimitives ==
  /\ op = "isPrimitive" =>
       result = (value.kind \in {"boolean", "number", "string", "null", "undefined", "symbol"})
  /\ op = "consumer" =>
       /\ again = "Primitive" <=> result = TRUE
       /\ again = "Primitive" <=> value \in Primitives
       /\ again = "Primitive[]" <=> value \in PrimitiveArrays

IsPrimitiveWitness ==
  /\ op = "consumer"
  /\ value = VArray(<<VNull, VStr("")>>)
  /\ again = "Primitive[]"

-----------------------------------------------------------------------------
(* Properties of the operators on record shapes *)

TheOne(s) == CHOOSE x \in s : TRUE

\* the object type with the properties of m whose keys are in ks
Restrict(m, ks) == Obj({ p \in PropsOf(m) : p.key \in ks })

\* C1: Overwrite<T, U> of two record shapes has exactly the keys of T; a key
\* of T that is a key of U carries U's value type, a key of T that is not
\* carries T's, and no key of U alone appears
OverwriteKeepsKeysOfT ==
  op = "Overwrite" =>
    /\ Cardinality(result) = 1
    /\ LET r == TheOne(result)
           t == TheOne(T)
           u == TheOne(U)
       IN /\ KeysOfMember(r) = KeysOfMember(t)
          /\ \A k \in KeysOfMember(t) :
                PropAt(r, k).type = IF k \in KeysOfMember(u) THEN PropAt(u, k).type
                                                            ELSE PropAt(t, k).type
          /\ \A k \in KeysOfMember(u) \ KeysOfMember(t) : k \notin KeysOfMember(r)

OverwriteWitness ==
  /\ op = "Overwrite"
  /\ T = {Props}
  /\ U = {NewProps}
  /\ result = { Obj({ Prop("name", {Prim("string")}, FALSE, FALSE),
                      Prop("age", {Prim("string")}, FALSE, FALSE),
                      Prop("visible", {Prim("boolean")}, FALSE, FALSE) }) }

\* C2: Assign<T, U> of two record shapes has the keys of T and of U; a key
\* of U carries U's value type and a key of T alone carries T's
AssignMergesRightWins ==
  op = "Assign" =>
    /\ Cardinality(result) = 1
    /\ LET r == TheOne(result)
           t == TheOne(T)
           u == TheOne(U)
       IN /\ KeysOfMember(r) = KeysOfMember(t) \cup KeysOfMember(u)
          /\ \A k \in KeysOfMember(u) : PropAt(r, k).type = PropAt(u, k).type
          /\ \A k \in KeysOfMember(t) \ KeysOfMember(u) : PropAt(r, k).type = PropAt(t, k).type

AssignWitness ==
  /\ op = "Assign"
  /\ T = {Props}
  /\ U = {NewProps}
  /\ result = { Obj({ Prop("name", {Prim("string")}, FALSE, FALSE),
                      Prop("age", {Prim("string")}, FALSE, FALSE),
                      Prop("visible", {Prim("boolean")}, FALSE, FALSE),
                      Prop("other", {Prim("string")}, FALSE, FALSE) }) }

\* C3: Diff<T, U> of two record shapes, and $Diff<T, U> when T extends U,
\* has the keys of T that are not keys of U, each with T's value type
DiffRemovesKeysOfU ==
  op \in {"Diff", "$Diff"} =>
    /\ Cardinality(result) = 1
    /\ LET r == TheOne(result)
           t == TheOne(T)
           u == TheOne(U)
       IN /\ KeysOfMember(r) = KeysOfMember(t) \ KeysOfMember(u)
          /\ \A k \in KeysOfMember(r) : PropAt(r, k).type = PropAt(t, k).type

DiffWitness ==
  /\ op = "$Diff"
  /\ T = {Props}
  /\ U = {DefaultProps}
  /\ result = { Obj({ Prop("name", {Prim("string")}, FALSE, FALSE),
                      Prop("visible", {Prim("boolean")}, FALSE, FALSE) }) }

\* C4: Omit and Intersection of a union of record shapes distribute: the
\* result is the union of the operator applied to each member, each member
\* keeping its own keys
OmitIntersectionDistribute ==
  /\ op = "Omit" =>
       /\ result = UNION { Omit({m}, K) : m \in T }
       /\ result = { Restrict(m, KeysOfMember(m) \ K) : m \in T }
  /\ op = "Intersection" =>
       /\ result = UNION { Intersection({m}, U) : m \in T }
       /\ result = { Restrict(m, KeysOfMember(m) \cap KeyOf(U)) : m \in T }

OmitDistributesWitness ==
  /\ op = "Omit"
  /\ T = {Props, NewProps}
  /\ K = {"age"}
  /\ result = { Obj({ Prop("name", {Prim("string")}, FALSE, FALSE),
                      Prop("visible", {Prim("boolean")}, FALSE, FALSE) }),
                Obj({ Prop("other", {Prim("string")}, FALSE, FALSE) }) }

\* C5: Diff of a union of record shapes is the union of Diff applied to each
\* member
DiffDistributes ==
  op = "Diff" => result = UNION { Diff({m}, U) : m \in T }

\* what the code yields for C5 on the fixtures: Diff<Props | NewProps,
\* DefaultProps> is one Pick over the union, whose only common key is age
DiffOfUnionOnFixtures ==
  (op = "Diff" /\ T = {Props, NewProps} /\ U = {DefaultProps}) =>
    /\ result = { Obj({}) }
    /\ result # UNION { Diff({m}, U) : m \in T }

-----------------------------------------------------------------------------
(* Properties of the deep transforms *)

\* the function-typed values of a type: the path of property names (and
\* [number] for the elements of an array or tuple) to each, with its signature
RECURSIVE FunctionsIn(_)
FunctionsIn(t) ==
  UNION { CASE m.tag = "fn" -> { <<(<<>>), m.name>> }
            [] m.tag = "obj" ->
                 UNION { { <<(<<p.key>>) \o f[1], f[2]>> : f \in FunctionsIn(p.type) } : p \in m.props }
            [] m.tag \in {"arr", "tuple"} ->
                 { <<(<<"[number]">>) \o f[1], f[2]>> : f \in FunctionsIn(ElementType(m)) }
            [] OTHER -> {}
          : m \in t }

\* the paths to the properties and array elements of a type
RECURSIVE PropertiesIn(_)
PropertiesIn(t) ==
  UNION { CASE m.tag = "obj" ->
                 UNION { { <<p.key>> } \cup { (<<p.key>>) \o q : q \in PropertiesIn(p.type) } : p \in m.props }
            [] m.tag \in {"arr", "tuple"} ->
                 { <<"[number]">> } \cup { (<<"[number]">>) \o q : q \in PropertiesIn(ElementType(m)) }
            [] OTHER -> {}
          : m \in t }

\* every property of every record is read-only and every array is a
\* read-only array, at every depth
RECURSIVE AllReadonly(_)
AllReadonly(t) ==
  \A m \in t :
    CASE m.tag = "obj" -> \A p \in m.props : p.ro /\ AllReadonly(p.type)
      [] m.tag = "arr" -> m.ro /\ AllReadonly(m.elem)
      [] m.tag = "tuple" -> FALSE
      [] OTHER -> TRUE

\* some array or tuple lies in the type
RECURSIVE HasArray(_)
HasArray(t) ==
  \E m \in t :
    CASE m.tag = "obj" -> \E p \in m.props : HasArray(p.type)
      [] m.tag \in {"arr", "tuple"} -> TRUE
      [] OTHER -> FALSE

\* C8: a deep transform applied to its own result yields that result again
DeepTransformsIdempotent ==
  op \in {"DeepReadonly twice", "DeepRequired twice", "DeepNonNullable twice"} => again = result

\* what holds of C8: DeepRequired and DeepNonNullable applied to their own
\* result yield it again, and so does DeepReadonly on a shape that holds no
\* array or tuple; on one that does, the second DeepReadonly maps the
\* read-only array as an object
DeepRequiredNonNullableIdempotent ==
  op \in {"DeepRequired twice", "DeepNonNullable twice"} => again = result

DeepReadonlyIdempotentWithoutArrays ==
  op = "DeepReadonly twice" => (again = result <=> ~HasArray(T))

\* C9: DeepReadonly, DeepRequired and DeepNonNullable leave every
\* function-typed value, at any depth, in its place with its signature
DeepTransformsKeepFunctions ==
  op \in {"DeepReadonly", "DeepRequired", "DeepNonNullable"} =>
    FunctionsIn(result) = FunctionsIn(T)

DeepKeepsFunctionWitness ==
  /\ op = "DeepNonNullable"
  /\ T = { Obj({ Prop("first",
                      { Null, Obj({ Prop("first", {Prim("string")}, FALSE, FALSE),
                                    Prop("second", {Fn("(value: number) => string")}, TRUE, FALSE) }) },
                      TRUE, FALSE) }) }
  /\ <<(<<"first", "second">>), "(value: number) => string">> \in FunctionsIn(result)
  /\ result # T

\* C10: in DeepReadonly<T> every property at every depth is read-only, and
\* every array and tuple has become a read-only array of deep-read-only
\* elements; no property is lost
DeepReadonlyAllReadonly ==
  op \in {"DeepReadonly", "$ReadOnly"} =>
    /\ AllReadonly(result)
    /\ PropertiesIn(result) = PropertiesIn(T)

DeepReadonlyWitness ==
  /\ op = "DeepReadonly"
  /\ T = { Obj({ Prop("first", { ArrayOf({ Obj({ Prop("first", {Prim("string")}, FALSE, FALSE) }) }) },
                      FALSE, FALSE) }) }
  /\ result = { Obj({ Prop("first",
                           { ReadonlyArrayOf({ Obj({ Prop("first", {Prim("string")}, FALSE, TRUE) }) }) },
                           FALSE, TRUE) }) }

\* no property is optional and no property or array element admits one of
\* the members of `banned`, at every depth
RECURSIVE NoneOptionalNor(_, _)
NoneOptionalNor(t, banned) ==
  \A m \in t :
    CASE m.tag = "obj" ->
           \A p \in m.props : ~p.opt /\ p.type \cap banned = {} /\ NoneOptionalNor(p.type, banned)
      [] m.tag \in {"arr", "tuple"} ->
           ElementType(m) \cap banned = {} /\ NoneOptionalNor(ElementType(m), banned)
      [] OTHER -> TRUE

\* the paths to the properties and array elements that admit null
RECURSIVE NullablesIn(_)
NullablesIn(t) ==
  UNION { CASE m.tag = "obj" ->
                 UNION { (IF Null \in p.type THEN { <<p.key>> } ELSE {})
                         \cup { (<<p.key>>) \o q : q \in NullablesIn(p.type) } : p \in m.props }
            [] m.tag \in {"arr", "tuple"} ->
                 (IF Null \in ElementType(m) THEN { <<"[number]">> } ELSE {})
                 \cup { (<<"[number]">>) \o q : q \in NullablesIn(ElementType(m)) }
            [] OTHER -> {}
          : m \in t }

\* C11: in DeepRequired<T> no property at any depth, through nested records
\* and array elements, is optional or admits undefined; the properties are
\* those of T, and the ones that admit null are the ones that did
DeepRequiredNoneOptional ==
  op = "DeepRequired" =>
    /\ NoneOptionalNor(result, {Undefined})
    /\ PropertiesIn(result) = PropertiesIn(T)
    /\ NullablesIn(result) = NullablesIn(T)

DeepRequiredWitness ==
  /\ op = "DeepRequired"
  /\ T = { Obj({ Prop("first", { Obj({ Prop("first", {Prim("string"), Null}, TRUE, FALSE) }) },
                      TRUE, FALSE) }) }
  /\ result = { Obj({ Prop("first", { Obj({ Prop("first", {Prim("string"), Null}, FALSE, FALSE) }) },
                           FALSE, FALSE) }) }

\* C12: in DeepNonNullable<T> no property at any depth, through nested
\* records and array elements, is optional or admits null or undefined; a
\* record typed null | {...} keeps its properties, transformed
DeepNonNullableNoneNullable ==
  op = "DeepNonNullable" =>
    /\ NoneOptionalNor(result, {Null, Undefined})
    /\ PropertiesIn(result) = PropertiesIn(T)

DeepNonNullableWitness ==
  /\ op = "DeepNonNullable"
  /\ T = { Obj({ Prop("first",
                      { Null, Obj({ Prop("first", {Prim("string"), Null}, TRUE, FALSE) }) },
                      TRUE, FALSE) }) }
  /\ result = { Obj({ Prop("first", { Obj({ Prop("first", {Prim("string")}, FALSE, FALSE) }) },
                           FALSE, FALSE) }) }

====
